---- MODULE Spec2Model ----
(***************************************************************************)
(* Model of email_profiler.py: the poll loop email_assistant_workflow and  *)
(* the functions it calls (check_new_emails, get_answer_for_email,         *)
(* draft_answer_for_email, send_answer_to_email).  The email provider and  *)
(* the knowledge base manager are external: what they return, and whether  *)
(* they raise, is chosen nondeterministically.                             *)
(***************************************************************************)
EXTENDS Integers, Sequences, FiniteSets, TLC

\* ------------------------------------------------------------------ bounds

\* Longest batch kbm.check_new_emails returns in the model (the code asks for
\* at most `limit`).
MaxBatch == 3

\* Longest inbox emailProfile.fetch_messages returns when the collection is
\* seeded.
MaxInbox == 2

\* The interval of wait_with_quit, in half seconds (the select timeout).
MaxTicks == 3

\* Most keystrokes typed during one wait_with_quit.
MaxKeys == 2

\* ------------------------------------------------------- program constants

\* limit=5 of check_new_emails.
limit == 5
\* top_k=3 of kbm.search.
top_k == 3
\* Confidence threshold 0.5; similarity scores are counted in 1/10000.
Threshold == 5000

\* ------------------------------------------------------------------- data

\* Python's Optional[List[str]]: None, or a list used only for membership.
NoneList == [none |-> TRUE, items |-> {}]
ListOf(S) == [none |-> FALSE, items |-> S]

\* Python's Optional[str]: None is distinct from the empty string.
PyNone == [none |-> TRUE, text |-> ""]
Str(s) == [none |-> FALSE, text |-> s]

Addresses == {"a@x.com", "b@x.com"}

\* Messages the mailbox can report as new (EmailMessageModel).
Messages ==
    { [message_id |-> "m1", sender |-> "a@x.com", subject |-> "Meeting?"],
      [message_id |-> "m2", sender |-> "b@x.com", subject |-> "Hello"],
      [message_id |-> "m3", sender |-> "a@x.com", subject |-> "Budget"] }

Min(a, b) == IF a < b THEN a ELSE b

\* Sequences over S of length at most n, without repetition.
RECURSIVE SeqsUpTo(_, _)
SeqsUpTo(S, n) ==
    IF n = 0 THEN { <<>> }
    ELSE LET shorter == SeqsUpTo(S, n - 1)
         IN  shorter \cup
             { Append(s, x) : s \in { t \in shorter : Len(t) = n - 1 },
                              x \in S }

NoRepeat(s) == \A i, j \in 1..Len(s) : i # j => s[i] # s[j]

\* What kbm.check_new_emails(limit=5).emails can be.
Batches == { b \in SeqsUpTo(Messages, Min(MaxBatch, limit)) : NoRepeat(b) }

\* What kbm.search(..., top_k=3).results can be (content, similarity_score).
ContextResults ==
    { [content |-> "C", similarity_score |-> 5000],
      [content |-> "D", similarity_score |-> 5001],
      [content |-> "E", similarity_score |-> 8000] }

ResultLists == { r \in SeqsUpTo(ContextResults, top_k) : NoRepeat(r) }

\* A str.format template as its parsed parts: literal text and replacement
\* fields {name} or {name.attr}.
Lit(s) == [kind |-> "lit", text |-> s, attr |-> ""]
Field(n) == [kind |-> "field", text |-> n, attr |-> ""]
FieldAttr(n, a) == [kind |-> "field", text |-> n, attr |-> a]

\* "Hi {sender}: {context}"
PatternContext == << Lit("Hi "), Field("sender"), Lit(": "), Field("context") >>
\* "Hi {sender}: {context_results}"
PatternContextResults ==
    << Lit("Hi "), Field("sender"), Lit(": "), Field("context_results") >>

Templates == { PatternContext, PatternContextResults }

DefaultIntro == "Hello "
DefaultMiddle ==
    ", I am the email assistant. I have found the following information for your question: "

\* The default answer pattern of get_answer_for_email.
DefaultPattern ==
    << Lit(DefaultIntro), FieldAttr("sender", "email"), Lit(DefaultMiddle),
       Field("context_results") >>

AnswerTypes == { "draft", "send" }

\* Senders the configuration file may give an answer pattern.
PatternSenders == { "a@x.com" }

Entries == [answer_pattern : Templates, answer_type : AnswerTypes]

AnswerPatternMaps == UNION { [D -> Entries] : D \in SUBSET PatternSenders }

OptionalLists == { NoneList } \cup { ListOf(S) : S \in SUBSET Addresses }

\* What email_assistant_config.json can hold.
Configs ==
    [whitelist : OptionalLists, blacklist : OptionalLists,
     answer_patterns : AnswerPatternMaps]

\* The value of email_assistant_config before the file is loaded.
Unloaded ==
    [whitelist |-> NoneList, blacklist |-> NoneList, answer_patterns |-> <<>>]

\* ------------------------------------------------------- check_new_emails

\* BothLists with the second test inverted.
BothLists_SecondInverted(whitelist, blacklist) ==
    ~whitelist.none /\ blacklist.none

\* The guard of check_new_emails: both lists were passed.
BothLists(whitelist, blacklist) == ~whitelist.none /\ ~blacklist.none

\* [email_msg for email_msg in emails if email_msg.sender.email in whitelist]
RECURSIVE KeepIn(_, _)
KeepIn(emails, items) ==
    IF emails = <<>> THEN <<>>
    ELSE IF Head(emails).sender \in items
         THEN <<Head(emails)>> \o KeepIn(Tail(emails), items)
         ELSE KeepIn(Tail(emails), items)

\* [email_msg for email_msg in emails if email_msg.sender.email not in blacklist]
RECURSIVE KeepOut(_, _)
KeepOut(emails, items) ==
    IF emails = <<>> THEN <<>>
    ELSE IF Head(emails).sender \notin items
         THEN <<Head(emails)>> \o KeepOut(Tail(emails), items)
         ELSE KeepOut(Tail(emails), items)

\* FilterEmails with the two comprehensions exchanged.
FilterEmails_Exchanged(emails, whitelist, blacklist) ==
    IF whitelist.none /\ blacklist.none THEN emails
    ELSE IF ~whitelist.none THEN KeepOut(emails, whitelist.items)
    ELSE KeepIn(emails, blacklist.items)

\* The filtering step of check_new_emails and what it returns.
FilterEmails(emails, whitelist, blacklist) ==
    LET filtered_emails ==
            IF whitelist.none /\ blacklist.none THEN emails
            ELSE IF ~whitelist.none THEN KeepIn(emails, whitelist.items)
            ELSE KeepOut(emails, blacklist.items)
    IN  IF Len(filtered_emails) # 0 THEN filtered_emails ELSE <<>>

\* ---------------------------------------------------- get_answer_for_email

\* The sender has an entry: answer_patterns.get(sender, None) is not None.
HasEntry(config, sender) == sender \in DOMAIN config.answer_patterns

\* The answer pattern get_answer_for_email uses for the sender.
ResolvePattern(config, sender) ==
    IF HasEntry(config, sender)
    THEN config.answer_patterns[sender].answer_pattern
    ELSE DefaultPattern

\* IsConfident with a non-strict comparison.
IsConfident_NonStrict(score) == score >= Threshold

\* context_result.similarity_score > 0.5
IsConfident(score) == score > Threshold

\* The loop that builds context_result_confident, started from acc.
RECURSIVE ConfidentFrom(_, _)
ConfidentFrom(acc, results) ==
    IF results = <<>> THEN acc
    ELSE ConfidentFrom(
             IF IsConfident(Head(results).similarity_score)
             THEN acc \o Head(results).content \o "\n"
             ELSE acc,
             Tail(results))

ConfidentContext(results) == ConfidentFrom("", results)

\* FormatKwargs with the two values exchanged.
FormatKwargs_Exchanged(sender, context) ==
    [sender |-> context, context_results |-> sender]

\* The keyword arguments get_answer_for_email passes to str.format.
FormatKwargs(sender, context) ==
    [sender |-> sender, context_results |-> context]

\* str.format(**kwargs) on a parsed template: a field whose name is no keyword
\* raises KeyError, an attribute lookup on a str value raises AttributeError;
\* the first failing field, left to right, decides.
RECURSIVE Format(_, _)
Format(template, kwargs) ==
    IF template = <<>> THEN [exc |-> "", text |-> ""]
    ELSE LET part == Head(template)
         IN  IF part.kind = "field" /\ part.text \notin DOMAIN kwargs
             THEN [exc |-> "KeyError", text |-> ""]
             ELSE IF part.kind = "field" /\ part.attr # ""
             THEN [exc |-> "AttributeError", text |-> ""]
             ELSE LET rest == Format(Tail(template), kwargs)
                      piece == IF part.kind = "lit" THEN part.text
                               ELSE kwargs[part.text]
                  IN  IF rest.exc # "" THEN rest
                      ELSE [exc |-> "", text |-> piece \o rest.text]

\* GetAnswer without the test context_result_confident != "".
GetAnswer_NoGate(config, sender, results) ==
    IF Len(results) = 0
    THEN [exc |-> "", answer |-> PyNone, confident |-> ""]
    ELSE LET confident == ConfidentContext(results)
             f == Format(ResolvePattern(config, sender),
                         FormatKwargs(sender, confident))
         IN  [exc |-> f.exc,
              answer |-> IF f.exc = "" THEN Str(f.text) ELSE PyNone,
              confident |-> confident]

\* get_answer_for_email once kbm.search has returned `results`: the exception
\* it raises (or ""), the answer it returns and the confident context it built.
GetAnswer(config, sender, results) ==
    LET answer_pattern == ResolvePattern(config, sender)
    IN  IF Len(results) = 0
        THEN [exc |-> "", answer |-> PyNone, confident |-> ""]
        ELSE LET confident == ConfidentContext(results)
             IN  IF confident # ""
                 THEN LET f == Format(answer_pattern,
                                      FormatKwargs(sender, confident))
                      IN  [exc |-> f.exc,
                           answer |-> IF f.exc = "" THEN Str(f.text) ELSE PyNone,
                           confident |-> confident]
                 ELSE [exc |-> "", answer |-> PyNone, confident |-> confident]

\* ----------------------------------------------------------------- dispatch

\* IsDraft without the test of answer_type.
IsDraft_AnyEntry(config, sender) == HasEntry(config, sender)

\* The draft branch of the workflow: the sender has an entry and its
\* answer_type is "draft".
IsDraft(config, sender) ==
    HasEntry(config, sender)
        /\ config.answer_patterns[sender].answer_type = "draft"

\* The call draft_answer_for_email makes on the email provider.
DraftCall(email_message, text) ==
    [op |-> "create_draft", message_id |-> email_message.message_id,
     to |-> email_message.sender, subject |-> "RE: " \o email_message.subject,
     body |-> text]

\* The call send_answer_to_email makes on the email provider.
SendCall(email_message, text) ==
    [op |-> "send_message_direct", message_id |-> email_message.message_id,
     to |-> email_message.sender, subject |-> "RE: " \o email_message.subject,
     body |-> text]

\* DispatchCalls without the test answer is not None.
DispatchCalls_NoneSent(config, email_message, ans) ==
    IF IsDraft(config, email_message.sender)
    THEN << DraftCall(email_message, ans.text) >>
    ELSE << SendCall(email_message, ans.text) >>

\* DispatchCalls without the else: a drafted answer is sent as well.
DispatchCalls_DraftAndSend(config, email_message, ans) ==
    IF ~ans.none
    THEN IF IsDraft(config, email_message.sender)
         THEN << DraftCall(email_message, ans.text),
                 SendCall(email_message, ans.text) >>
         ELSE << SendCall(email_message, ans.text) >>
    ELSE <<>>

\* The email-provider calls the loop body makes for a message and its answer.
DispatchCalls(config, email_message, ans) ==
    IF ~ans.none
    THEN IF IsDraft(config, email_message.sender)
         THEN << DraftCall(email_message, ans.text) >>
         ELSE << SendCall(email_message, ans.text) >>
    ELSE <<>>

\* ------------------------------------------------------------ the workflow

\* What emailProfile.fetch_messages(limit=None, ...) can return when the
\* collection is seeded.
Inboxes ==
    { b \in SeqsUpTo({ m \in Messages : m.message_id \in { "m1", "m2" } },
                     MaxInbox) : NoRepeat(b) }

\* [email_msg.message_id for email_msg in emails]
RECURSIVE MessageIds(_)
MessageIds(emails) ==
    IF emails = <<>> THEN <<>>
    ELSE << Head(emails).message_id >> \o MessageIds(Tail(emails))

\* DatabaseEmailIds with the whitelist ignored.
DatabaseEmailIds_Unfiltered(emails, whitelist, blacklist) ==
    MessageIds(emails)

\* filtered_email_ids of email_database_creation.
DatabaseEmailIds(emails, whitelist, blacklist) ==
    IF whitelist.none /\ blacklist.none THEN MessageIds(emails)
    ELSE IF ~whitelist.none THEN MessageIds(KeepIn(emails, whitelist.items))
    ELSE MessageIds(KeepOut(emails, blacklist.items))

\* A call on a capability, with the ids or the path it is given
\* (fetch_messages: the ids of the messages it returns).
CapabilityCall(op, arg) == [op |-> op, arg |-> arg]

\* The capability calls of a complete email_database_creation, in order.
DatabaseCreationCalls(inbox, whitelist, blacklist) ==
    << CapabilityCall("connect", <<>>),
       CapabilityCall("fetch_messages", MessageIds(inbox)),
       CapabilityCall("process_new_emails",
                      DatabaseEmailIds(inbox, whitelist, blacklist)),
       CapabilityCall("disconnect", <<>>) >>

\* The two kbm.process_document calls of the workflow, in order.
DocumentCalls ==
    << CapabilityCall("process_document", << "latex_documents/vahid.tex" >>),
       CapabilityCall("process_document", << "latex_documents/mohamed.tex" >>) >>

VARIABLES
    pc,                       \* where email_assistant_workflow stands
    email_profile,            \* "unbound" or "bound": the local name
    kbm,                      \* "unbound", "open" or "closed"
    connected,                \* connect() was called and disconnect() was not
    collection_exists,        \* "Email" in kbm.list_collections()
    email_assistant_config,   \* the loaded configuration
    fetched,                  \* new_emails.emails inside check_new_emails
    new_emails,               \* what check_new_emails returned
    idx,                      \* position of email_message in new_emails
    context_results,          \* the results of the last kbm.search
    context_result_confident, \* the context built from them
    answer,                   \* what get_answer_for_email returned
    calls,                    \* email-provider calls of this iteration
    error,                    \* the exception in flight, "" when none
    startup_calls,            \* capability calls made before the poll loop
    releases,                 \* calls made by the finally clause
    searched,                 \* message ids kbm.search ran for, this iteration
    answered,                 \* message ids answered in earlier iterations
    w_pc,                     \* where wait_with_quit stands
    isatty,                   \* sys.stdin.isatty()
    term_settings,            \* the terminal attributes of stdin
    old_settings,             \* the attributes wait_with_quit saved
    entry_settings,           \* the attributes when wait_with_quit was called
    elapsed,                  \* half seconds since wait_with_quit was called
    stdin_buf,                \* keystrokes typed and not yet read
    read_keys,                \* keystrokes wait_with_quit has read
    quit                      \* wait_with_quit returned True

workflow_vars ==
    << pc, email_profile, kbm, connected, collection_exists,
       email_assistant_config, fetched, new_emails, idx, context_results,
       context_result_confident, answer, calls, error, startup_calls,
       releases, searched, answered >>

wait_vars ==
    << w_pc, isatty, term_settings, old_settings, entry_settings, elapsed,
       stdin_buf, read_keys >>

vars == << workflow_vars, wait_vars, quit >>

\* The workflow before its first statement.
WorkflowInit ==
    /\ pc = "init_profile"
    /\ email_profile = "unbound"
    /\ kbm = "unbound"
    /\ connected = FALSE
    /\ collection_exists = FALSE
    /\ email_assistant_config = Unloaded
    /\ fetched = <<>>
    /\ new_emails = <<>>
    /\ idx = 1
    /\ context_results = <<>>
    /\ context_result_confident = ""
    /\ answer = PyNone
    /\ calls = <<>>
    /\ error = ""
    /\ startup_calls = <<>>
    /\ releases = <<>>
    /\ searched = <<>>
    /\ answered = {}

\* wait_with_quit not called.
WaitIdle ==
    /\ w_pc = "idle"
    /\ isatty = FALSE
    /\ term_settings = "cooked"
    /\ old_settings = "unset"
    /\ entry_settings = term_settings
    /\ elapsed = 0
    /\ stdin_buf = <<>>
    /\ read_keys = <<>>

Init == WorkflowInit /\ WaitIdle /\ quit = FALSE

\* An exception leaves the try block for the except clause.
Raise(exc) ==
    /\ error' = exc
    /\ pc' = "except"

\* email_profile = initialize_email_profile()
InitializeEmailProfile ==
    /\ pc = "init_profile"
    /\ \/ /\ email_profile' = "bound"
          /\ pc' = "init_kbm"
          /\ UNCHANGED error
       \/ /\ Raise("ProfileError")
          /\ UNCHANGED email_profile
    /\ UNCHANGED << kbm, connected, collection_exists, email_assistant_config,
                    fetched, new_emails, idx, context_results,
                    context_result_confident, answer, calls,
                    startup_calls, releases, searched, answered,
                    wait_vars, quit >>

\* kbm = initialize_knowledge_base_manager()
InitializeKnowledgeBaseManager ==
    /\ pc = "init_kbm"
    /\ \/ /\ kbm' = "open"
          /\ pc' = "list_collections"
          /\ UNCHANGED error
       \/ /\ Raise("KnowledgeBaseError")
          /\ UNCHANGED kbm
    /\ UNCHANGED << email_profile, connected, collection_exists,
                    email_assistant_config, fetched, new_emails, idx,
                    context_results, context_result_confident, answer,
                    calls, startup_calls, releases, searched, answered,
                    wait_vars, quit >>

\* collections = kbm.list_collections()
ListCollections ==
    /\ pc = "list_collections"
    /\ startup_calls' =
          Append(startup_calls, CapabilityCall("list_collections", <<>>))
    /\ \/ /\ \E exists \in BOOLEAN : collection_exists' = exists
          /\ pc' = "load_config"
          /\ UNCHANGED error
       \/ /\ Raise("KnowledgeBaseError")
          /\ UNCHANGED collection_exists
    /\ UNCHANGED << email_profile, kbm, connected, email_assistant_config,
                    fetched, new_emails, idx, context_results,
                    context_result_confident, answer, calls, releases,
                    searched, answered, wait_vars, quit >>

\* email_assistant_config = load_email_assistant_config(...), then the test
\* "Email" not in collections.
LoadEmailAssistantConfig ==
    /\ pc = "load_config"
    /\ \/ /\ \E config \in Configs : email_assistant_config' = config
          /\ pc' = IF collection_exists THEN "check" ELSE "create_database"
          /\ UNCHANGED error
       \/ /\ Raise("ConfigLoadError")
          /\ UNCHANGED email_assistant_config
    /\ UNCHANGED << email_profile, kbm, connected, collection_exists, fetched,
                    new_emails, idx, context_results,
                    context_result_confident, answer, calls,
                    startup_calls, releases, searched, answered,
                    wait_vars, quit >>

\* email_database_creation(email_profile, kbm, whitelist=...), the blacklist
\* left at its default None: connect, fetch, filter, store, disconnect.  Any
\* of the four calls may raise; a failure after connect() leaves the
\* connection open.
EmailDatabaseCreation ==
    /\ pc = "create_database"
    /\ ~BothLists(email_assistant_config.whitelist, NoneList)
    /\ \E inbox \in Inboxes :
          LET all == DatabaseCreationCalls(inbox,
                                           email_assistant_config.whitelist,
                                           NoneList)
          IN  \/ /\ startup_calls' = startup_calls \o all
                 /\ connected' = FALSE
                 /\ pc' = "process_documents"
                 /\ UNCHANGED error
              \/ /\ startup_calls' = startup_calls \o SubSeq(all, 1, 1)
                 /\ Raise("ConnectError")
                 /\ UNCHANGED connected
              \/ \E failed \in 2..Len(all) :
                    /\ startup_calls' = startup_calls \o SubSeq(all, 1, failed)
                    /\ Raise("SeedError")
                    /\ connected' = TRUE
    /\ UNCHANGED << email_profile, kbm, collection_exists,
                    email_assistant_config, fetched, new_emails, idx,
                    context_results, context_result_confident, answer,
                    calls, releases, searched, answered, wait_vars,
                    quit >>

\* The two kbm.process_document calls; either may raise.
ProcessDocuments ==
    /\ pc = "process_documents"
    /\ \/ /\ startup_calls' = startup_calls \o DocumentCalls
          /\ pc' = "check"
          /\ UNCHANGED error
       \/ \E failed \in 1..Len(DocumentCalls) :
             /\ startup_calls' = startup_calls \o SubSeq(DocumentCalls, 1, failed)
             /\ Raise("KnowledgeBaseError")
    /\ UNCHANGED << email_profile, kbm, connected, collection_exists,
                    email_assistant_config, fetched, new_emails, idx,
                    context_results, context_result_confident, answer,
                    calls, releases, searched, answered, wait_vars,
                    quit >>

\* CheckedEmails without the messages answered in an earlier iteration.
CheckedEmails_Unanswered(emails) ==
    SelectSeq(FilterEmails(emails, email_assistant_config.whitelist,
                           email_assistant_config.blacklist),
              LAMBDA m : m.message_id \notin answered)

\* CheckedEmails returning new_emails.emails in place of filtered_emails.
CheckedEmails_Unfiltered(emails) == emails

\* What check_new_emails returns to the workflow for the emails the knowledge
\* base manager reports as new.
CheckedEmails(emails) ==
    FilterEmails(emails, email_assistant_config.whitelist,
                 email_assistant_config.blacklist)

\* new_emails = check_new_emails(...), and the start of the for loop.
CheckNewEmails ==
    /\ pc = "check"
    /\ \/ /\ BothLists(email_assistant_config.whitelist,
                       email_assistant_config.blacklist)
          /\ Raise("ValueError")
          /\ UNCHANGED << fetched, new_emails, idx, calls, searched, answered >>
       \/ /\ ~BothLists(email_assistant_config.whitelist,
                        email_assistant_config.blacklist)
          /\ Raise("FetchError")
          /\ UNCHANGED << fetched, new_emails, idx, calls, searched, answered >>
       \/ /\ ~BothLists(email_assistant_config.whitelist,
                        email_assistant_config.blacklist)
          /\ \E emails \in Batches :
                /\ fetched' = emails
                /\ new_emails' = CheckedEmails(emails)
          /\ idx' = 1
          /\ calls' = <<>>
          /\ searched' = <<>>
          /\ answered' = answered \cup
                            { calls[i].message_id : i \in 1..Len(calls) }
          /\ pc' = IF new_emails' = <<>> THEN "wait" ELSE "answer"
          /\ UNCHANGED error
    /\ UNCHANGED << email_profile, kbm, connected, collection_exists,
                    email_assistant_config, context_results,
                    context_result_confident, answer, startup_calls,
                    releases, wait_vars, quit >>

\* answer = get_answer_for_email(..., email_message, ...)
\* Cleaning the body or kbm.search may raise (SearchError); otherwise the
\* search returns some results.
GetAnswerForEmail ==
    /\ pc = "answer"
    /\ searched' = Append(searched, new_emails[idx].message_id)
    /\ \/ /\ Raise("SearchError")
          /\ context_results' = <<>>
          /\ context_result_confident' = ""
          /\ UNCHANGED answer
       \/ \E results \in ResultLists :
             LET r == GetAnswer(email_assistant_config,
                                new_emails[idx].sender, results)
             IN  /\ context_results' = results
                 /\ context_result_confident' = r.confident
                 /\ IF r.exc = ""
                    THEN /\ answer' = r.answer
                         /\ pc' = "dispatch"
                         /\ UNCHANGED error
                    ELSE /\ Raise(r.exc)
                         /\ UNCHANGED answer
    /\ UNCHANGED << email_profile, kbm, connected, collection_exists,
                    email_assistant_config, fetched, new_emails, idx,
                    calls, startup_calls, releases, answered,
                    wait_vars, quit >>

\* Dispatch leaving the for loop after the first message.
Dispatch_LeavesLoop ==
    /\ pc = "dispatch"
    /\ context_results' = <<>>
    /\ context_result_confident' = ""
    /\ calls' = calls \o DispatchCalls(email_assistant_config,
                                       new_emails[idx], answer)
    /\ \/ /\ idx' = idx + 1
          /\ pc' = "wait"
          /\ UNCHANGED error
       \/ /\ ~answer.none
          /\ Raise("DispatchError")
          /\ UNCHANGED idx
    /\ UNCHANGED << email_profile, kbm, connected, collection_exists,
                    email_assistant_config, fetched, new_emails,
                    answer, startup_calls, releases, searched,
                    answered, wait_vars, quit >>

\* The rest of the loop body: draft or send when there is an answer, then on
\* to the next message or to the wait.  The locals of get_answer_for_email
\* are gone by now.
Dispatch ==
    /\ pc = "dispatch"
    /\ context_results' = <<>>
    /\ context_result_confident' = ""
    /\ calls' = calls \o DispatchCalls(email_assistant_config,
                                       new_emails[idx], answer)
    /\ \/ /\ idx' = idx + 1
          /\ pc' = IF idx < Len(new_emails) THEN "answer" ELSE "wait"
          /\ UNCHANGED error
       \/ /\ ~answer.none
          /\ Raise("DispatchError")
          /\ UNCHANGED idx
    /\ UNCHANGED << email_profile, kbm, connected, collection_exists,
                    email_assistant_config, fetched, new_emails,
                    answer, startup_calls, releases, searched,
                    answered, wait_vars, quit >>

\* if wait_with_quit(120): break.  The terminal calls of wait_with_quit may
\* raise.
WaitWithQuit ==
    /\ pc = "wait"
    /\ \/ /\ \E quit_requested \in BOOLEAN :
                /\ quit' = quit_requested
                /\ pc' = IF quit_requested THEN "finally" ELSE "check"
          /\ UNCHANGED error
       \/ /\ Raise("TerminalError")
          /\ UNCHANGED quit
    /\ UNCHANGED << email_profile, kbm, connected, collection_exists,
                    email_assistant_config, fetched, new_emails, idx,
                    context_results, context_result_confident, answer,
                    calls, startup_calls, releases, searched, answered,
                    wait_vars >>

\* ExceptHandler without the raise.
ExceptHandler_Swallowed ==
    /\ pc = "except"
    /\ pc' = "finally"
    /\ error' = ""
    /\ UNCHANGED << email_profile, kbm, connected, collection_exists,
                    email_assistant_config, fetched, new_emails, idx,
                    context_results, context_result_confident, answer,
                    calls, startup_calls, releases, searched, answered,
                    wait_vars, quit >>

\* except Exception as e: log and raise e
ExceptHandler ==
    /\ pc = "except"
    /\ pc' = "finally"
    /\ UNCHANGED << email_profile, kbm, connected, collection_exists,
                    email_assistant_config, fetched, new_emails, idx,
                    context_results, context_result_confident, answer,
                    calls, error, startup_calls, releases, searched,
                    answered, wait_vars, quit >>

\* finally: email_profile.disconnect(); kbm.close()
Finally ==
    /\ pc = "finally"
    /\ pc' = "done"
    /\ \/ /\ email_profile = "unbound"
          /\ error' = "UnboundLocalError"
          /\ UNCHANGED << connected, kbm, releases >>
       \/ /\ email_profile = "bound"
          /\ releases' = << "disconnect" >>
          /\ error' = "DisconnectError"
          /\ UNCHANGED << connected, kbm >>
       \/ /\ email_profile = "bound"
          /\ connected' = FALSE
          /\ IF kbm = "unbound"
             THEN /\ releases' = << "disconnect" >>
                  /\ error' = "UnboundLocalError"
                  /\ UNCHANGED kbm
             ELSE /\ releases' = << "disconnect", "close" >>
                  /\ kbm' = "closed"
                  /\ UNCHANGED error
    /\ UNCHANGED << email_profile, collection_exists, email_assistant_config,
                    fetched, new_emails, idx, context_results,
                    context_result_confident, answer, calls,
                    startup_calls, searched, answered, wait_vars,
                    quit >>

Next ==
    \/ InitializeEmailProfile
    \/ InitializeKnowledgeBaseManager
    \/ ListCollections
    \/ LoadEmailAssistantConfig
    \/ EmailDatabaseCreation
    \/ ProcessDocuments
    \/ CheckNewEmails
    \/ GetAnswerForEmail
    \/ Dispatch
    \/ WaitWithQuit
    \/ ExceptHandler
    \/ Finally

Spec == Init /\ [][Next]_vars

\* ----------------------------------------------------------- wait_with_quit

\* Keystrokes the user may type.
Keys == { "q", "Q", "x" }

\* Terminal attributes stdin may have when wait_with_quit is called.
TerminalSettings == { "cooked", "raw" }

\* str.lower() on a keystroke.
Lower(ch) == IF ch = "Q" THEN "q" ELSE ch

\* IsQuitKey without the lower().
IsQuitKey_CaseSensitive(ch) == ch = "q"

\* ch.lower() == 'q'
IsQuitKey(ch) == Lower(ch) = "q"

\* wait_with_quit is called.
WaitInit ==
    /\ WorkflowInit
    /\ quit = FALSE
    /\ w_pc = "call"
    /\ isatty \in BOOLEAN
    /\ term_settings \in TerminalSettings
    /\ old_settings = "unset"
    /\ entry_settings = term_settings
    /\ elapsed = 0
    /\ stdin_buf = <<>>
    /\ read_keys = <<>>

\* wait_with_quit without its finally clause.
RestoreTerminal_Skipped == UNCHANGED term_settings

\* The finally clause of wait_with_quit: termios.tcsetattr(fd, ..., old_settings)
RestoreTerminal == term_settings' = old_settings

\* The statements before the while loop: the sleep when stdin is no terminal,
\* else tcgetattr (which may raise, before the try) and setcbreak (which may
\* raise, inside the try).
WaitEnter ==
    /\ w_pc = "call"
    /\ \/ /\ ~isatty
          /\ elapsed' = MaxTicks
          /\ quit' = FALSE
          /\ w_pc' = "returned"
          /\ UNCHANGED << term_settings, old_settings >>
       \/ /\ isatty
          /\ w_pc' = "raised"
          /\ UNCHANGED << term_settings, old_settings, elapsed, quit >>
       \/ /\ isatty
          /\ old_settings' = term_settings
          /\ term_settings' = "cbreak"
          /\ w_pc' = "loop"
          /\ UNCHANGED << elapsed, quit >>
       \/ /\ isatty
          /\ old_settings' = term_settings
          /\ term_settings' = old_settings'
          /\ w_pc' = "raised"
          /\ UNCHANGED << elapsed, quit >>
    /\ UNCHANGED << isatty, entry_settings, stdin_buf, read_keys,
                    workflow_vars >>

\* One test of the while condition and, when it holds, one select: a pending
\* keystroke is read, else the select times out after half a second; select
\* and read may raise.
WaitLoop ==
    /\ w_pc = "loop"
    /\ \/ /\ ~(elapsed < MaxTicks)
          /\ quit' = FALSE
          /\ RestoreTerminal
          /\ w_pc' = "returned"
          /\ UNCHANGED << elapsed, stdin_buf, read_keys >>
       \/ /\ elapsed < MaxTicks
          /\ stdin_buf = <<>>
          /\ elapsed' = elapsed + 1
          /\ UNCHANGED << w_pc, term_settings, stdin_buf, read_keys, quit >>
       \/ /\ elapsed < MaxTicks
          /\ stdin_buf # <<>>
          /\ \E waited \in { 0, 1 } : elapsed' = elapsed + waited
          /\ read_keys' = Append(read_keys, Head(stdin_buf))
          /\ stdin_buf' = Tail(stdin_buf)
          /\ IF IsQuitKey(Head(stdin_buf))
             THEN /\ quit' = TRUE
                  /\ RestoreTerminal
                  /\ w_pc' = "returned"
             ELSE UNCHANGED << w_pc, term_settings, quit >>
       \/ /\ elapsed < MaxTicks
          /\ RestoreTerminal
          /\ w_pc' = "raised"
          /\ UNCHANGED << elapsed, stdin_buf, read_keys, quit >>
    /\ UNCHANGED << isatty, old_settings, entry_settings, workflow_vars >>

\* The user types a key while wait_with_quit runs.
TypeKey ==
    /\ w_pc \in { "call", "loop" }
    /\ Len(stdin_buf) + Len(read_keys) < MaxKeys
    /\ \E ch \in Keys : stdin_buf' = Append(stdin_buf, ch)
    /\ UNCHANGED << w_pc, isatty, term_settings, old_settings, entry_settings,
                    elapsed, read_keys, workflow_vars, quit >>

WaitNext ==
    \/ WaitEnter
    \/ WaitLoop
    \/ TypeKey

WaitSpec == WaitInit /\ [][WaitNext]_vars

\* ------------------------------------------------------------- properties

Range(s) == { s[i] : i \in 1..Len(s) }

Pos(s, x) == CHOOSE i \in 1..Len(s) : s[i] = x

\* sub is exactly the messages of full that Keep holds of, each once and in
\* the order of full.
ExactSubsequence(sub, full, Keep(_)) ==
    /\ sub = SelectSeq(full, Keep)
    /\ Range(sub) = { m \in Range(full) : Keep(m) }
    /\ NoRepeat(sub)
    /\ \A i, j \in 1..Len(sub) :
          i < j => Pos(full, sub[i]) < Pos(full, sub[j])

\* A list that is non-null and non-empty.
Provided(list) == ~list.none /\ list.items # {}

\* get_answer_for_email has just run to its end for new_emails[idx], with a
\* search that returned: it returned an answer or str.format raised.
JustAnswered ==
    \/ pc = "dispatch"
    \/ pc = "except" /\ error \in { "KeyError", "AttributeError" }

\* The sender of the message being processed.
CurrentSender == new_emails[idx].sender

\* C1: with only a whitelist S the filter returns exactly the fetched messages
\* whose sender is in S, and with only a blacklist S exactly those whose sender
\* is not in S, in the fetched order, none duplicated or invented.
C1_SenderFilter ==
    LET whitelist == email_assistant_config.whitelist
        blacklist == email_assistant_config.blacklist
    IN  /\ (~whitelist.none /\ blacklist.none) =>
              ExactSubsequence(new_emails, fetched,
                               LAMBDA m : m.sender \in whitelist.items)
        /\ (whitelist.none /\ ~blacklist.none) =>
              ExactSubsequence(new_emails, fetched,
                               LAMBDA m : m.sender \notin blacklist.items)

\* A whitelist kept two of three fetched messages, in their fetched order.
C1_Witness ==
    /\ pc = "answer"
    /\ email_assistant_config.whitelist = ListOf({"a@x.com"})
    /\ email_assistant_config.blacklist.none
    /\ Len(fetched) = 3
    /\ fetched[2].sender = "b@x.com"
    /\ new_emails = << fetched[1], fetched[3] >>

\* C2: with a non-empty whitelist and a non-empty blacklist, check_new_emails
\* fails with the configuration error and returns no messages.
C2_BothListsRejected ==
    [][ ( /\ pc = "check"
          /\ Provided(email_assistant_config.whitelist)
          /\ Provided(email_assistant_config.blacklist) )
        => ( /\ pc' = "except"
             /\ error' = "ValueError"
             /\ fetched' = <<>>
             /\ new_emails' = <<>>
             /\ calls' = <<>> ) ]_vars

\* check_new_emails has raised the configuration error for two non-empty lists.
C2_Witness ==
    /\ pc = "except"
    /\ error = "ValueError"
    /\ Provided(email_assistant_config.whitelist)
    /\ Provided(email_assistant_config.blacklist)

\* C3: when neither list is provided (null or empty) the filter does not fail
\* and returns all fetched messages; an empty list together with a non-empty
\* one is no configuration error.
C3_NeitherProvided ==
    LET whitelist == email_assistant_config.whitelist
        blacklist == email_assistant_config.blacklist
    IN  /\ (~Provided(whitelist) /\ ~Provided(blacklist)) =>
              (error # "ValueError" /\ new_emails = fetched)
        /\ (~Provided(whitelist) \/ ~Provided(blacklist)) =>
              error # "ValueError"

\* content + newline of each result, in order.
RECURSIVE JoinLines(_)
JoinLines(results) ==
    IF results = <<>> THEN ""
    ELSE Head(results).content \o "\n" \o JoinLines(Tail(results))

\* C4: the context is the concatenation, in search order, of content + newline
\* of exactly the results whose similarity_score is strictly above 0.5.
C4_ConfidenceGate ==
    context_result_confident =
        JoinLines(SelectSeq(context_results,
                            LAMBDA r : r.similarity_score > Threshold))

\* Three results, the middle one at exactly 0.5: the context is the other two.
C4_Witness ==
    /\ pc = "dispatch"
    /\ Len(context_results) = 3
    /\ context_results[1].content = "E"
    /\ context_results[2].similarity_score = Threshold
    /\ context_result_confident = "E\nD\n"

\* C5: when the search returns no result, or none above the threshold,
\* get_answer_for_email returns None (no empty string, no error), whatever the
\* sender and the answer patterns.
C5_NoAnswer ==
    ( /\ JustAnswered
      /\ \A i \in 1..Len(context_results) :
            ~(context_results[i].similarity_score > Threshold) )
    => ( pc = "dispatch" /\ error = "" /\ answer = PyNone )

\* A sender with a custom pattern got None for a result at exactly 0.5.
C5_Witness ==
    /\ pc = "dispatch"
    /\ HasEntry(email_assistant_config, CurrentSender)
    /\ Len(context_results) = 1
    /\ context_results[1].similarity_score = Threshold
    /\ answer = PyNone

\* C6: for a message whose answer is None the loop makes no email-provider
\* call and goes on to the next message (or to the wait after the last one).
C6_SkippedDispatch ==
    [][ (pc = "dispatch" /\ answer.none)
        => ( /\ calls' = calls
             /\ error' = error
             /\ idx' = idx + 1
             /\ pc' = IF idx < Len(new_emails) THEN "answer" ELSE "wait" ) ]_vars

\* The first message was skipped and the loop stands at the second.
C6_Witness ==
    /\ pc = "answer"
    /\ idx = 2
    /\ answer = PyNone
    /\ calls = <<>>

\* A template with its fields replaced by values, the rest kept.
RECURSIVE Rendered(_, _)
Rendered(template, values) ==
    IF template = <<>> THEN ""
    ELSE (IF Head(template).kind = "lit" THEN Head(template).text
          ELSE values[Head(template).text])
         \o Rendered(Tail(template), values)

\* The names of the replacement fields of a template.
FieldNames(template) ==
    { template[i].text : i \in { k \in 1..Len(template) :
                                    template[k].kind = "field" } }

\* No field of the template looks up an attribute.
PlainFields(template) ==
    \A i \in 1..Len(template) : template[i].attr = ""

C8_DefaultTemplate ==
    ( /\ JustAnswered
      /\ ~HasEntry(email_assistant_config, CurrentSender)
      /\ context_result_confident # "" )
    => ( /\ pc = "dispatch"
         /\ error = ""
         /\ answer = Str(DefaultIntro \o CurrentSender \o DefaultMiddle
                             \o context_result_confident) )

\* C9: for a message with an answer the loop makes exactly one email-provider
\* call, create_draft when the sender's entry has answer_type "draft" and
\* send_message_direct otherwise, with subject "RE: " + subject and the answer
\* as body.
C9_DispatcherRouting ==
    [][ (pc = "dispatch" /\ ~answer.none)
        => LET email_message == new_emails[idx]
               patterns == email_assistant_config.answer_patterns
               op == IF email_message.sender \in DOMAIN patterns
                        /\ patterns[email_message.sender].answer_type = "draft"
                     THEN "create_draft"
                     ELSE "send_message_direct"
           IN  /\ Len(calls') = Len(calls) + 1
               /\ SubSeq(calls', 1, Len(calls)) = calls
               /\ calls'[Len(calls')].op = op
               /\ calls'[Len(calls')].message_id = email_message.message_id
               /\ calls'[Len(calls')].subject = "RE: " \o email_message.subject
               /\ calls'[Len(calls')].body = answer.text ]_vars

\* A draft was created for m1, and nothing was sent.
C9_Witness ==
    /\ pc \in { "answer", "wait" }
    /\ calls = << [op |-> "create_draft", message_id |-> "m1",
                   to |-> "a@x.com", subject |-> "RE: Meeting?",
                   body |-> "Hi a@x.com: E\n"] >>

\* C10: a failure of the search or of the draft/send for one message does not
\* end the loop: the later messages are processed and the loop goes to the wait.
C10_MessageIsolation ==
    error \in { "SearchError", "DispatchError" }
        => pc \in { "answer", "dispatch", "wait", "check" }


\* The states of the while loop of email_assistant_workflow.
LoopStates == { "check", "answer", "dispatch", "wait" }

\* The states after the loop and the start-up have been left.
ExitStates == { "except", "finally", "done" }

\* How many calls of log are calls of op.
Count(log, op) == Cardinality({ i \in 1..Len(log) : log[i] = op })

\* The operations of a log of capability calls.
Ops(log) == [ i \in 1..Len(log) |-> log[i].op ]

\* C11: on every exit path of the workflow (cancellation or an exception, the
\* failure to acquire either handle and a failing disconnect included) the
\* cleanup performs both releases: the email connection is disconnected and
\* the knowledge-base handle is closed.
C11_GuaranteedCleanup ==
    pc = "done" => releases = << "disconnect", "close" >>

\* C12: once a quit is observed during the wait the loop goes to termination
\* with no further fetch, search, draft or send, and over the whole run the
\* email disconnect and the knowledge-base close each happen exactly once,
\* runs that seeded the collection included.
C12_CancellationCleanupOnce ==
    quit =>
        /\ pc \in { "finally", "done" }
        /\ pc = "done" =>
              /\ Count(Ops(startup_calls), "disconnect")
                    + Count(releases, "disconnect") = 1
              /\ Count(releases, "close") = 1

\* C13: when the configuration is malformed or sets both lists, the run fails
\* before any call on the email provider or the knowledge base manager.
C13_ConfigErrorsBeforeIO ==
    error \in { "ConfigLoadError", "ValueError" } =>
        /\ startup_calls = <<>>
        /\ fetched = <<>>
        /\ searched = <<>>
        /\ calls = <<>>

\* The sender policy excludes the message: its sender is not in the whitelist,
\* or is in the blacklist.
Excluded(m) ==
    \/ /\ ~email_assistant_config.whitelist.none
       /\ m.sender \notin email_assistant_config.whitelist.items
    \/ /\ ~email_assistant_config.blacklist.none
       /\ m.sender \in email_assistant_config.blacklist.items

\* C14: for a fetched message the sender policy excludes, the iteration makes
\* no knowledge-base search (hence no composition) and no draft or send call.
C14_FilteredOutUntouched ==
    \A i \in 1..Len(fetched) :
        Excluded(fetched[i]) =>
            /\ fetched[i] \notin Range(new_emails)
            /\ fetched[i].message_id \notin Range(searched)
            /\ \A k \in 1..Len(calls) :
                  calls[k].message_id # fetched[i].message_id

\* An iteration ended in which a message of b@x.com was fetched and excluded
\* while the two other fetched messages were searched and answered.
C14_Witness ==
    /\ pc = "wait"
    /\ Len(fetched) = 3
    /\ \E i \in 1..Len(fetched) :
          /\ fetched[i].sender = "b@x.com"
          /\ Excluded(fetched[i])
    /\ Len(searched) = 2
    /\ Len(calls) = 2

\* C15: the email connection is opened before the loop and stays open for the
\* whole loop, so every fetch, draft and send happens while it is connected;
\* the seeding step neither opens nor closes it.
C15_ExclusiveOwnership ==
    /\ pc \in LoopStates => connected
    /\ Count(Ops(startup_calls), "connect") = 0
    /\ Count(Ops(startup_calls), "disconnect") = 0

\* Every message of the batch check_new_emails returned has gone through
\* get_answer_for_email and the dispatch.
BatchComplete ==
    /\ idx = Len(new_emails) + 1
    /\ searched = MessageIds(new_emails)

FormatErrors == { "KeyError", "AttributeError" }

\* C17: a formatting error is not absorbed: it takes the workflow out of the
\* loop, after it no message is searched or answered and nothing is fetched,
\* the cleanup runs, and the workflow ends with an exception.
C17_FormatErrorFatal ==
    [][ /\ error' \in FormatErrors => pc' \in ExitStates
        /\ error \in FormatErrors =>
              /\ pc' \in { "finally", "done" }
              /\ error' # ""
              /\ fetched' = fetched
              /\ searched' = searched
              /\ calls' = calls
              /\ pc' = "done" => releases' # <<>> ]_vars

\* The workflow ended with the KeyError of the first message of a batch of
\* two, after the cleanup.
C17_Witness ==
    /\ pc = "done"
    /\ error = "KeyError"
    /\ Len(new_emails) = 2
    /\ idx = 1
    /\ searched = << new_emails[1].message_id >>
    /\ calls = <<>>
    /\ releases = << "disconnect", "close" >>

\* The operations that seed the collection.
SeedingOps == { "process_new_emails", "process_document" }

\* The ids of the messages of the inbox ids the whitelist keeps (all of them
\* when there is no whitelist).
WhitelistedIds(ids, whitelist) ==
    SelectSeq(ids, LAMBDA id :
        \/ whitelist.none
        \/ \E m \in Messages : m.message_id = id /\ m.sender \in whitelist.items)

\* The calls of a start-up that seeded the collection.
IsSeeding(log) ==
    /\ Ops(log) = << "list_collections", "connect", "fetch_messages",
                     "process_new_emails", "disconnect",
                     "process_document", "process_document" >>
    /\ log[4].arg = WhitelistedIds(log[3].arg, email_assistant_config.whitelist)
    /\ << log[6].arg, log[7].arg >>
          = << << "latex_documents/vahid.tex" >>,
               << "latex_documents/mohamed.tex" >> >>

\* C18: the seeding happens at most once, before the first check_new_emails,
\* and if and only if the collection is absent at start-up; it seeds the
\* inbox messages the whitelist keeps (all without a whitelist), then the two
\* documents.  With the collection present no seeding call is ever made.
C18_Bootstrap ==
    [][ /\ (pc = "load_config" /\ pc' # "except") =>
              (pc' = "create_database" <=> ~collection_exists)
        /\ (pc = "load_config" /\ pc' = "check") =>
              /\ collection_exists
              /\ startup_calls' = << CapabilityCall("list_collections", <<>>) >>
        /\ startup_calls' # startup_calls =>
              pc \in { "list_collections", "create_database",
                       "process_documents" }
        /\ (pc = "process_documents" /\ pc' = "check") =>
              /\ ~collection_exists
              /\ IsSeeding(startup_calls')
        /\ pc \in LoopStates \cup ExitStates =>
              /\ pc' \in LoopStates \cup ExitStates
              /\ startup_calls' = startup_calls
        /\ collection_exists' =>
              \A i \in 1..Len(startup_calls') :
                  startup_calls'[i].op \notin SeedingOps ]_vars

\* The loop starts after a seeding in which the whitelist kept the second of
\* the two inbox messages.
C18_Witness ==
    /\ pc = "check"
    /\ ~collection_exists
    /\ email_assistant_config.whitelist = ListOf({"a@x.com"})
    /\ Len(startup_calls) = 7
    /\ startup_calls[3].arg = << "m2", "m1" >>
    /\ startup_calls[4].arg = << "m1" >>

\* The keystrokes that ask to quit.
QuitKeys == { "q", "Q" }

\* C19: without a terminal the wait lasts the full interval and reports no
\* cancellation; with a terminal it reports cancellation if and only if a q or
\* Q was read before the interval elapsed, returning when that key is read,
\* any other key being consumed without ending the wait; with no quit key it
\* reports no cancellation once the interval has elapsed.
C19_CancellableWait ==
    /\ (w_pc = "returned" /\ ~isatty) =>
          /\ ~quit
          /\ elapsed = MaxTicks
          /\ read_keys = <<>>
    /\ (w_pc = "returned" /\ isatty) =>
          /\ quit <=> \E i \in 1..Len(read_keys) : read_keys[i] \in QuitKeys
          /\ quit =>
                /\ read_keys[Len(read_keys)] \in QuitKeys
                /\ \A i \in 1..(Len(read_keys) - 1) :
                      read_keys[i] \notin QuitKeys
                /\ elapsed <= MaxTicks
          /\ ~quit => elapsed = MaxTicks
    /\ w_pc = "loop" =>
          /\ ~quit
          /\ \A i \in 1..Len(read_keys) : read_keys[i] \notin QuitKeys

\* On a terminal the wait read an x, went on, and returned the cancellation
\* when it read a Q, before the interval elapsed.
C19_Witness ==
    /\ w_pc = "returned"
    /\ isatty
    /\ quit
    /\ read_keys = << "x", "Q" >>
    /\ elapsed < MaxTicks

\* The sender policy keeps the message.
Kept(m) ==
    LET whitelist == email_assistant_config.whitelist
        blacklist == email_assistant_config.blacklist
    IN  \/ whitelist.none /\ blacklist.none
        \/ ~whitelist.none /\ m.sender \in whitelist.items
        \/ whitelist.none /\ ~blacklist.none /\ m.sender \notin blacklist.items

\* C20: the loop keeps no record of answered messages: a message that is
\* fetched again is retrieved and answered again, whatever was answered in
\* earlier iterations.
C20_NoDeduplication ==
    [][ /\ (pc = "check" /\ pc' \in { "answer", "wait" }) =>
              new_emails' = SelectSeq(fetched', Kept)
        /\ (pc = "answer" /\ new_emails[idx].message_id \in answered) =>
              searched' = Append(searched, new_emails[idx].message_id)
        /\ ( /\ pc = "dispatch"
             /\ ~answer.none
             /\ new_emails[idx].message_id \in answered ) =>
              /\ Len(calls') = Len(calls) + 1
              /\ calls'[Len(calls')].message_id = new_emails[idx].message_id
              /\ calls'[Len(calls')].body = answer.text ]_vars

\* A message answered in an earlier iteration was fetched, searched and
\* answered again.
C20_Witness ==
    /\ pc = "wait"
    /\ "m1" \in answered
    /\ "m1" \in Range(searched)
    /\ \E k \in 1..Len(calls) : calls[k].message_id = "m1"

\* The email-provider operations of the dispatch.
DispatchOps == { "create_draft", "send_message_direct" }

\* The ids of the first n messages of the batch.
FirstIds(n) == MessageIds(SubSeq(new_emails, 1, n))

\* C21: in an iteration the filtered messages are processed one at a time in
\* filtered order, each by a search, then the composition, then at most one
\* dispatch call (a draft or a send, never both); the search of a message
\* starts only after the dispatch of the one before it returned, and the next
\* fetch starts only after the wait ended without cancellation.
C21_SequentialPipeline ==
    [][ /\ pc = "answer" =>
              /\ idx \in 1..Len(new_emails)
              /\ searched = FirstIds(idx - 1)
              /\ searched' = Append(searched, new_emails[idx].message_id)
              /\ calls' = calls
              /\ idx' = idx
              /\ pc' \in { "dispatch", "except" }
              /\ pc' = "dispatch" =>
                    (~answer'.none => context_result_confident' # "")
        /\ pc = "dispatch" =>
              /\ searched = FirstIds(idx)
              /\ searched' = searched
              /\ \/ calls' = calls
                 \/ /\ Len(calls') = Len(calls) + 1
                    /\ SubSeq(calls', 1, Len(calls)) = calls
                    /\ calls'[Len(calls')].op \in DispatchOps
                    /\ calls'[Len(calls')].message_id
                          = new_emails[idx].message_id
              /\ pc' = "answer" => idx' = idx + 1
              /\ pc' = "wait" => (idx = Len(new_emails) /\ idx' = idx + 1)
              /\ pc' \in { "answer", "wait", "except" }
        /\ pc \notin { "answer", "dispatch", "check" } =>
              (searched' = searched /\ calls' = calls)
        /\ pc # "check" => (fetched' = fetched /\ new_emails' = new_emails)
        /\ (pc \in LoopStates /\ pc' = "check") => (pc = "wait" /\ ~quit')
        /\ (pc = "wait" /\ quit') => pc' = "finally" ]_vars

\* An iteration ended in which three messages were searched in their order
\* and two of them answered, in the same order.
C21_Witness ==
    /\ pc = "wait"
    /\ Len(new_emails) = 3
    /\ searched = MessageIds(new_emails)
    /\ Len(calls) = 2
    /\ calls[1].message_id = new_emails[1].message_id
    /\ calls[2].message_id = new_emails[3].message_id

\* wait_with_quit has returned or raised.
WaitExited == w_pc \in { "returned", "raised" }

\* C22: on every exit of wait_with_quit on a terminal (quit key, timeout or an
\* exception while polling) the attributes saved on entry are restored, so
\* the terminal mode after the call is the mode before it; without a terminal
\* the mode is neither read nor changed.
C22_TerminalRestored ==
    /\ (isatty /\ WaitExited) => term_settings = entry_settings
    /\ (isatty /\ w_pc = "loop") =>
          /\ old_settings = entry_settings
          /\ term_settings = "cbreak"
    /\ ~isatty =>
          /\ term_settings = entry_settings
          /\ old_settings = "unset"

\* On a raw terminal wait_with_quit switched to cbreak, read a key, and an
\* exception while polling ended it with the raw mode restored.
C22_Witness ==
    /\ w_pc = "raised"
    /\ isatty
    /\ entry_settings = "raw"
    /\ old_settings = "raw"
    /\ read_keys # <<>>
    /\ term_settings = "raw"
====
